---------------------------- MODULE Spec2Model ----------------------------
(***************************************************************************)
(* A model of the FIBO ontology tool server: the graph loader              *)
(* (loader.py), the lexical index, the term extractor and the four tool    *)
(* operations sparql / search / describe / restrictions (fibo.py).         *)
(*                                                                         *)
(* Strings are sequences of atoms.  An atom is a word of a text (what      *)
(* str.split() separates) or a segment of a URI (a namespace, a prefix     *)
(* token, a local name).  Scores are fixed-point numbers in units of       *)
(* 10^-4; a reported score (round(x, 2)) is in units of 10^-2.             *)
(***************************************************************************)
EXTENDS Integers, Sequences, FiniteSets, TLC


(***************************************************************************)
(* Strings                                                                 *)
(***************************************************************************)

\* str.lower() on one atom; the atoms with an upper-case letter are listed.
LowerAtom(a) ==
  CASE a = "Entity" -> "entity"
    [] a = "Legal" -> "legal"
    [] a = "Identifier" -> "identifier"
    [] a = "Business" -> "business"
    [] a = "Type" -> "type"
    [] a = "Bank" -> "bank"
    [] a = "Central" -> "central"
    [] a = "Reserve" -> "reserve"
    [] a = "Agent" -> "agent"
    [] a = "Authorized" -> "authorized"
    [] a = "Depositary" -> "depositary"
    [] a = "Financial" -> "financial"
    [] a = "Institution" -> "institution"
    [] a = "Credit" -> "credit"
    [] a = "Agreement" -> "agreement"
    [] a = "Loan" -> "loan"
    [] OTHER -> a

\* str.lower() on a string
Lower(s) == [i \in 1..Len(s) |-> LowerAtom(s[i])]

\* str.startswith(p)
StartsWith(s, p) == Len(s) >= Len(p) /\ SubSeq(s, 1, Len(p)) = p

\* s[n:]
DropFirst(s, n) == SubSeq(s, n + 1, Len(s))

RDF == "http://www.w3.org/1999/02/22-rdf-syntax-ns#"
RDFS == "http://www.w3.org/2000/01/rdf-schema#"
OWL == "http://www.w3.org/2002/07/owl#"
SKOS == "http://www.w3.org/2004/02/skos/core#"
CMNS == "https://www.omg.org/spec/Commons/AnnotationVocabulary/"
FIBO == "https://spec.edmcouncil.org/fibo/ontology/"

\* the prefix table, in registration (dict insertion) order
PREFIXES ==
  << [full |-> <<RDF>>, prefix |-> <<"rdf:">>],
     [full |-> <<RDFS>>, prefix |-> <<"rdfs:">>],
     [full |-> <<OWL>>, prefix |-> <<"owl:">>],
     [full |-> <<SKOS>>, prefix |-> <<"skos:">>],
     [full |-> <<CMNS>>, prefix |-> <<"cmns-av:">>],
     [full |-> <<FIBO>>, prefix |-> <<"fibo:">>] >>

\* the first table position at or after i whose namespace starts uri, else 0
RECURSIVE FirstFull(_, _)
FirstFull(uri, i) ==
  IF i > Len(PREFIXES) THEN 0
  ELSE IF StartsWith(uri, PREFIXES[i].full) THEN i
  ELSE FirstFull(uri, i + 1)

\* the same with the namespace left in place behind the prefix
CompactKeepsNamespace(uri) ==
  LET i == FirstFull(uri, 1) IN
  IF i = 0 THEN uri ELSE PREFIXES[i].prefix \o uri

_compact_uri(uri) ==
  LET i == FirstFull(uri, 1) IN
  IF i = 0 THEN uri
  ELSE PREFIXES[i].prefix \o DropFirst(uri, Len(PREFIXES[i].full))

RECURSIVE FirstPrefix(_, _)
FirstPrefix(uri, i) ==
  IF i > Len(PREFIXES) THEN 0
  ELSE IF StartsWith(uri, PREFIXES[i].prefix) THEN i
  ELSE FirstPrefix(uri, i + 1)

_expand_uri(uri) ==
  IF StartsWith(uri, <<"fibo:">>) THEN <<FIBO>> \o DropFirst(uri, 1)
  ELSE LET i == FirstPrefix(uri, 1) IN
       IF i = 0 THEN uri
       ELSE PREFIXES[i].full \o DropFirst(uri, Len(PREFIXES[i].prefix))

(***************************************************************************)
(* The relevance statistic (rank_bm25.BM25Okapi, k1 = 1.5, b = 0.75,       *)
(* epsilon = 0.25) in fixed point.                                         *)
(***************************************************************************)

\* 10^4 * ln(n) for the odd n that 2 * (count + 0.5) takes
Ln10k(n) ==
  CASE n = 1 -> 0
    [] n = 3 -> 10986
    [] n = 5 -> 16094
    [] n = 7 -> 19459
    [] n = 9 -> 21972
    [] n = 11 -> 23979
    [] n = 13 -> 25649
    [] n = 15 -> 27081
    [] n = 17 -> 28332
    [] OTHER -> 29444

RECURSIVE SumSeq(_)
SumSeq(s) == IF s = <<>> THEN 0 ELSE s[1] + SumSeq(Tail(s))

RECURSIVE SumOver(_, _)
SumOver(S, f) ==
  IF S = {} THEN 0
  ELSE LET x == CHOOSE y \in S : TRUE IN f[x] + SumOver(S \ {x}, f)

Range(s) == {s[i] : i \in 1..Len(s)}

\* the number of occurrences of word w in document d
Freq(d, w) == Cardinality({i \in 1..Len(d) : d[i] = w})

Vocabulary(corpus) == UNION {Range(corpus[i]) : i \in 1..Len(corpus)}

\* the number of documents holding word w
DocCount(corpus, w) == Cardinality({i \in 1..Len(corpus) : w \in Range(corpus[i])})

RawIdf(corpus, w) ==
  LET N == Len(corpus)
      n == DocCount(corpus, w)
  IN Ln10k(2 * (N - n) + 1) - Ln10k(2 * n + 1)

\* BM25Okapi(corpus): raises ZeroDivisionError on a corpus with no document
\* (avgdl = num_doc / corpus_size) or with no word (idf_sum / len(idf))
BuildRaises(corpus) == Len(corpus) = 0 \/ Vocabulary(corpus) = {}

\* the statistics structure: the per-document word lists (doc_freqs, doc_len),
\* their total length (avgdl) and the idf table with negative entries
\* replaced by epsilon * average_idf
BM25Okapi(corpus) ==
  LET V == Vocabulary(corpus)
      raw == [w \in V |-> RawIdf(corpus, w)]
      avg == SumOver(V, raw) \div Cardinality(V)
      eps == avg \div 4
  IN [docs |-> corpus,
      total |-> SumSeq([i \in 1..Len(corpus) |-> Len(corpus[i])]),
      idf |-> [w \in V |-> IF raw[w] < 0 THEN eps ELSE raw[w]]]

\* one query word's contribution to one document's score:
\* idf * f * (k1 + 1) / (f + k1 * (1 - b + b * dl / avgdl))
WordScore(bm, i, w) ==
  LET f == Freq(bm.docs[i], w)
      idf == IF w \in DOMAIN bm.idf THEN bm.idf[w] ELSE 0
      den == 8 * f * bm.total + 3 * bm.total + 9 * Len(bm.docs[i]) * Len(bm.docs)
  IN IF f = 0 \/ idf = 0 THEN 0 ELSE (idf * 20 * f * bm.total) \div den

\* bm25.get_scores(tokens): one score per index position
get_scores(bm, tokens) ==
  [i \in 1..Len(bm.docs) |->
     SumSeq([j \in 1..Len(tokens) |-> WordScore(bm, i, tokens[j])])]

\* round(x, 2): units of 10^-4 to units of 10^-2, half to even
Round2(x) ==
  LET q == x \div 100
      r == x % 100
  IN IF r < 50 THEN q
     ELSE IF r > 50 THEN q + 1
     ELSE IF q % 2 = 0 THEN q ELSE q + 1


(***************************************************************************)
(* Graphs.  A triple is [s, p, o]; s is a string (an IRI or a blank node   *)
(* id), o is a node [k, v] with k one of "iri", "lit", "bnode".  The       *)
(* ontology sources the model draws from are three small graphs.           *)
(***************************************************************************)

Iri(v) == [k |-> "iri", v |-> v]
Lit(v) == [k |-> "lit", v |-> v]
BNode(v) == [k |-> "bnode", v |-> v]
T(s, p, o) == [s |-> s, p |-> p, o |-> o]

OwlClass == Iri(<<OWL, "Class">>)
OwlRestriction == Iri(<<OWL, "Restriction">>)
OwlThing == Iri(<<OWL, "Thing">>)

LegalEntityIdentifier == <<FIBO, "LegalEntityIdentifier">>
BusinessEntityType == <<FIBO, "BusinessEntityType">>
Entity == <<FIBO, "Entity">>
CentralBank == <<FIBO, "CentralBank">>
Bank == <<FIBO, "Bank">>
hasIdentity == <<FIBO, "hasIdentity">>
R1 == <<"_:r1">>

\* three labelled classes, one the superclass of another, one restricted
GraphA ==
  << T(LegalEntityIdentifier, "a", OwlClass),
     T(LegalEntityIdentifier, "label", Lit(<<"Legal", "Entity", "Identifier">>)),
     T(LegalEntityIdentifier, "subClassOf", Iri(Entity)),
     T(BusinessEntityType, "a", OwlClass),
     T(BusinessEntityType, "label", Lit(<<"Business", "Entity", "Type">>)),
     T(BusinessEntityType, "subClassOf", BNode(R1)),
     T(R1, "a", OwlRestriction),
     T(R1, "onProperty", Iri(hasIdentity)),
     T(R1, "someValuesFrom", Iri(Entity)),
     T(Entity, "a", OwlClass),
     T(Entity, "label", Lit(<<"Entity">>)) >>

\* a class with two labels, a class with a definition
GraphB ==
  << T(CentralBank, "a", OwlClass),
     T(CentralBank, "label", Lit(<<"Central", "Bank">>)),
     T(CentralBank, "label", Lit(<<"Reserve", "Bank">>)),
     T(CentralBank, "subClassOf", Iri(Bank)),
     T(Bank, "a", OwlClass),
     T(Bank, "label", Lit(<<"Bank">>)),
     T(Bank, "definition", Lit(<<"bank">>)) >>

\* no labelled class: a labelled individual whose definition is the empty
\* string, a labelled individual with no definition, a class with no label
GraphN ==
  << T(<<FIBO, "Acme">>, "label", Lit(<<"Agent">>)),
     T(<<FIBO, "Acme">>, "definition", Lit(<<>>)),
     T(<<FIBO, "Zenith">>, "label", Lit(<<"Agent">>)),
     T(<<FIBO, "Unnamed">>, "a", OwlClass) >>

Depositary == <<FIBO, "Depositary">>
FinancialInstitution == <<FIBO, "FinancialInstitution">>

\* a class with no definition, two classes with one, one of them its superclass
GraphM ==
  << T(Bank, "a", OwlClass),
     T(Bank, "label", Lit(<<"Bank">>)),
     T(Bank, "subClassOf", Iri(FinancialInstitution)),
     T(Depositary, "a", OwlClass),
     T(Depositary, "label", Lit(<<"Authorized", "Depositary">>)),
     T(Depositary, "definition", Lit(<<"custodian">>)),
     T(FinancialInstitution, "a", OwlClass),
     T(FinancialInstitution, "label", Lit(<<"Financial", "Institution">>)),
     T(FinancialInstitution, "definition", Lit(<<"intermediary">>)) >>

LoanContract == <<FIBO, "LoanContract">>
MortgageLoanContract == <<FIBO, "MortgageLoanContract">>
StudentLoanContract == <<FIBO, "StudentLoanContract">>

\* three classes whose labels do not say what their URIs say, one of them
\* with an empty label and one with none; a class of another vocabulary and
\* an individual with the same words in their URIs
GraphU ==
  << T(LoanContract, "a", OwlClass),
     T(LoanContract, "label", Lit(<<"Credit", "Agreement">>)),
     T(LoanContract, "definition", Lit(<<"lending">>)),
     T(MortgageLoanContract, "a", OwlClass),
     T(MortgageLoanContract, "label", Lit(<<>>)),
     T(StudentLoanContract, "a", OwlClass),
     T(<<CMNS, "LoanContract">>, "a", OwlClass),
     T(<<FIBO, "LoanContractOfAcme">>, "a", Iri(LoanContract)) >>

GraphIds == {"GA", "GB", "GN", "GM", "GU"}
GraphOrder == <<"GA", "GB", "GN", "GM", "GU">>
SourceTriples(gid) ==
  CASE gid = "GA" -> GraphA
    [] gid = "GB" -> GraphB
    [] gid = "GM" -> GraphM
    [] gid = "GU" -> GraphU
    [] OTHER -> GraphN

RECURSIVE Flatten(_)
Flatten(ss) == IF ss = <<>> THEN <<>> ELSE ss[1] \o Flatten(Tail(ss))

\* what the OWL-RL closure adds: every class is a subclass of itself and
\* of owl:Thing
InferredTriples(ts) ==
  LET IsClassDecl(t) == t.p = "a" /\ t.o = OwlClass
      cs == SelectSeq(ts, IsClassDecl)
  IN Flatten([i \in 1..Len(cs) |->
       << T(cs[i].s, "subClassOf", Iri(cs[i].s)),
          T(cs[i].s, "subClassOf", OwlThing) >>])

\* the value of a graph object (and of a serialized file): the sources
\* parsed into it, and whether the closure was added
BlankGraph == [base |-> {}, inf |-> FALSE]
GraphOf(gid) == [base |-> {gid}, inf |-> FALSE]

\* the triples of a graph value, in a fixed scan order
Triples(gv) ==
  LET InBase(gid) == gid \in gv.base
      ids == SelectSeq(GraphOrder, InBase)
      base == Flatten([i \in 1..Len(ids) |-> SourceTriples(ids[i])])
  IN IF gv.inf THEN base \o InferredTriples(base) ELSE base

\* the objects o of the triples (s, p, o), in scan order
Objects(ts, s, p) ==
  LET Hit(t) == t.s = s /\ t.p = p
      hs == SelectSeq(ts, Hit)
  IN [i \in 1..Len(hs) |-> hs[i].o]

\* str(node)
Str(node) == node.v

(***************************************************************************)
(* The graph-query engine, as far as the tools use it.  A result row maps  *)
(* every query variable to a node or to Unbound.                            *)
(***************************************************************************)

\* the value of a variable that a row leaves unbound (None)
Unbound == [k |-> "none", v |-> <<>>]

\* OPTIONAL { ... }: the matches if there is one, else one unbound match
Optional(xs) == IF xs = <<>> THEN <<Unbound>> ELSE xs

IsBlank(s) == StartsWith(s, <<"_:r1">>)
SubjectNode(s) == IF IsBlank(s) THEN BNode(s) ELSE Iri(s)

\* SELECT ?c ?label ?def WHERE { ?c a owl:Class . ?c rdfs:label ?label .
\*   OPTIONAL { ?c skos:definition ?def } }
ClassQuery(ts) ==
  LET IsClassDecl(t) == t.p = "a" /\ t.o = OwlClass
      cs == SelectSeq(ts, IsClassDecl)
      RowsOf(c) ==
        LET ls == Objects(ts, c, "label")
            ds == Optional(Objects(ts, c, "definition"))
        IN Flatten([i \in 1..Len(ls) |->
             [j \in 1..Len(ds) |-> [c |-> Iri(c), label |-> ls[i], def |-> ds[j]]]])
  IN Flatten([i \in 1..Len(cs) |-> RowsOf(cs[i].s)])

\* lit occurs in text (CONTAINS)
Contains(text, lit) ==
  \E i \in 0..(Len(text) - Len(lit)) : SubSeq(text, i + 1, i + Len(lit)) = lit

\* one FILTER clause on ?label
FilterHolds(f, label) ==
  CASE f.form = "lcase" -> Contains(Lower(label), f.lit)
    [] f.form = "eq" -> label = f.lit
    [] OTHER -> Contains(label, f.lit)

\* the structured queries the model submits: a text the parser rejects, and
\* SELECT ?s ?label ?definition WHERE { ?s rdfs:label ?label .
\*   OPTIONAL { ?s skos:definition ?definition } FILTER(...) ... }
QInvalid == [valid |-> FALSE, filters |-> <<>>]
QAll == [valid |-> TRUE, filters |-> <<>>]
QLcase == [valid |-> TRUE, filters |-> <<[form |-> "lcase", lit |-> <<"entity">>]>>]
QEq == [valid |-> TRUE, filters |-> <<[form |-> "eq", lit |-> <<"Bank">>]>>]
\* two clauses, the one of the later pattern first in the text
QEqLcase == [valid |-> TRUE, filters |-> <<[form |-> "eq", lit |-> <<"Bank">>],
                                          [form |-> "lcase", lit |-> <<"entity">>]>>]
QBareStr == [valid |-> TRUE, filters |-> <<[form |-> "bare", lit |-> <<"Agent">>],
                                          [form |-> "str", lit |-> <<"Agent">>],
                                          [form |-> "str", lit |-> <<"Entity">>]>>]
Queries == {QInvalid, QAll, QLcase, QEq, QEqLcase, QBareStr}

SelectVars == <<"s", "label", "definition">>

QueryRaises(q) == ~q.valid
\* str(e) of the parser's exception
QueryError(q) == <<"Expected", "SelectQuery">>

\* graph.query(q) for a valid q
EvalSelect(ts, q) ==
  LET IsLabel(t) ==
        /\ t.p = "label"
        /\ \A k \in 1..Len(q.filters) : FilterHolds(q.filters[k], t.o.v)
      ls == SelectSeq(ts, IsLabel)
      RowsOf(t) ==
        LET ds == Optional(Objects(ts, t.s, "definition"))
        IN [j \in 1..Len(ds) |->
             [s |-> SubjectNode(t.s), label |-> t.o, definition |-> ds[j]]]
  IN Flatten([i \in 1..Len(ls) |-> RowsOf(ls[i])])

\* a full URI the query parser accepts between < and >
ValidIri(uri) == \A i \in 1..Len(uri) : uri[i] # "a b"

DescribeVars == <<"label", "definition", "explanatoryNote", "superclass", "superLabel">>

\* the template query of describe
DescribeQuery(ts, full_uri) ==
  LET ls == Objects(ts, full_uri, "label")
      ds == Optional(Objects(ts, full_uri, "definition"))
      ns == Optional(Objects(ts, full_uri, "explanatoryNote"))
      IsSuper(t) ==
        /\ t.s = full_uri /\ t.p = "subClassOf" /\ t.o.k = "iri"
        /\ Objects(ts, t.o.v, "label") # <<>>
      sups == SelectSeq(ts, IsSuper)
      found == Flatten([i \in 1..Len(sups) |->
                 LET sl == Objects(ts, sups[i].o.v, "label")
                 IN [j \in 1..Len(sl) |-> [c |-> sups[i].o, l |-> sl[j]]]])
      pairs == IF found = <<>> THEN <<[c |-> Unbound, l |-> Unbound]>> ELSE found
  IN Flatten(Flatten(Flatten(
       [i \in 1..Len(ls) |-> [j \in 1..Len(ds) |-> [k \in 1..Len(ns) |->
          [m \in 1..Len(pairs) |->
             [label |-> ls[i], definition |-> ds[j], explanatoryNote |-> ns[k],
              superclass |-> pairs[m].c, superLabel |-> pairs[m].l]]]]])))

RestrictionVars == <<"property", "propLabel", "type", "target", "targetLabel">>

\* the kind and target of restriction node r: the first of
\* someValuesFrom / allValuesFrom / hasValue that it has
KindOf(ts, r) ==
  LET some == Objects(ts, r, "someValuesFrom")
      only == Objects(ts, r, "allValuesFrom")
      val == Objects(ts, r, "hasValue")
  IN IF some # <<>> THEN [type |-> Lit(<<"some">>), target |-> some[1]]
     ELSE IF only # <<>> THEN [type |-> Lit(<<"only">>), target |-> only[1]]
     ELSE IF val # <<>> THEN [type |-> Lit(<<"value">>), target |-> val[1]]
     ELSE [type |-> Unbound, target |-> Unbound]

\* the template query of restrictions
RestrictionQuery(ts, full_uri) ==
  LET IsRestr(t) ==
        /\ t.s = full_uri /\ t.p = "subClassOf"
        /\ OwlRestriction \in Range(Objects(ts, t.o.v, "a"))
        /\ Objects(ts, t.o.v, "onProperty") # <<>>
      rs == SelectSeq(ts, IsRestr)
      RowsOf(r) ==
        LET ps == Objects(ts, r, "onProperty")
            kt == KindOf(ts, r)
            tls == Optional(Objects(ts, kt.target.v, "label"))
        IN Flatten([i \in 1..Len(ps) |->
             LET pls == Optional(Objects(ts, ps[i].v, "label"))
             IN Flatten([j \in 1..Len(pls) |-> [k \in 1..Len(tls) |->
                  [property |-> ps[i], propLabel |-> pls[j], type |-> kt.type,
                   target |-> kt.target, targetLabel |-> tls[k]]]])])
  IN Flatten([i \in 1..Len(rs) |-> RowsOf(rs[i].o.v)])

(***************************************************************************)
(* Result compaction, term extraction and the ranking of fuzzy_search      *)
(***************************************************************************)

\* the row of sparql with a truth test in place of the test for None
CompactRowDropEmpty(row, vars) ==
  LET bound == {v \in Range(vars) : row[v] # Unbound /\ Str(row[v]) # <<>>}
  IN [v \in bound |-> _compact_uri(Str(row[v]))]

\* {str(var): str(row[var]) for var in vars if row[var] is not None},
\* then _compact_result: the row of sparql
CompactRow(row, vars) ==
  LET bound == {v \in Range(vars) : row[v] # Unbound}
  IN [v \in bound |-> _compact_uri(Str(row[v]))]

\* the same with the truth test of describe and restrictions (if r[v]):
\* an empty literal is dropped too
CompactRowTruthy(row, vars) ==
  LET bound == {v \in Range(vars) : row[v] # Unbound /\ Str(row[v]) # <<>>}
  IN [v \in bound |-> _compact_uri(Str(row[v]))]

\* the filter forms the patterns capture, in pattern order:
\* CONTAINS(LCASE(?v), "..."), CONTAINS(STR(?v), "..."), CONTAINS(?v, "..."),
\* = "..."
Patterns == <<"lcase", "str", "bare", "eq">>

\* re.search: the first clause of the text that the pattern matches, else 0
FirstMatch(filters, pattern) ==
  LET hits == {i \in 1..Len(filters) : filters[i].form = pattern /\ filters[i].lit # <<>>}
  IN IF hits = {} THEN 0 ELSE CHOOSE i \in hits : \A j \in hits : i <= j

\* the result None of _extract_search_term; a pattern captures one character
\* or more ([^"']+), so no captured term is the empty string
NoTerm == <<>>

RECURSIVE ExtractFrom(_, _)
ExtractFrom(filters, p) ==
  IF p > Len(Patterns) THEN NoTerm
  ELSE LET i == FirstMatch(filters, Patterns[p]) IN
       IF i # 0 THEN Lower(filters[i].lit) ELSE ExtractFrom(filters, p + 1)

\* the same with the patterns joined into one alternation: the clause that
\* comes first in the text wins
ExtractLeftmost(query) ==
  LET hits == {i \in 1..Len(query.filters) : query.filters[i].lit # <<>>}
  IN IF hits = {} THEN NoTerm
     ELSE Lower(query.filters[CHOOSE i \in hits : \A j \in hits : i <= j].lit)

_extract_search_term(query) == ExtractFrom(query.filters, 1)

\* the same for a sort that is not stable: idx goes ahead of its equals
InsertDescUnstable(sorted, scores, idx) ==
  LET ahead == {p \in 1..Len(sorted) : scores[sorted[p]] > scores[idx]}
      n == Cardinality(ahead)
  IN SubSeq(sorted, 1, n) \o <<idx>> \o SubSeq(sorted, n + 1, Len(sorted))

\* idx inserted into a sequence of positions sorted by descending score,
\* behind every position of greater or equal score
InsertDesc(sorted, scores, idx) ==
  LET ahead == {p \in 1..Len(sorted) : scores[sorted[p]] >= scores[idx]}
      n == Cardinality(ahead)
  IN SubSeq(sorted, 1, n) \o <<idx>> \o SubSeq(sorted, n + 1, Len(sorted))

RECURSIVE SortedFrom(_, _, _)
SortedFrom(sorted, scores, i) ==
  IF i > Len(scores) THEN sorted
  ELSE SortedFrom(InsertDesc(sorted, scores, i), scores, i + 1)

\* sorted(range(len(scores)), key=lambda i: scores[i], reverse=True)
SortedDesc(scores) == SortedFrom(<<>>, scores, 1)

\* s[:k]
Slice(s, k) ==
  IF k >= 0 THEN SubSeq(s, 1, IF k < Len(s) THEN k ELSE Len(s))
  ELSE SubSeq(s, 1, IF Len(s) + k > 0 THEN Len(s) + k ELSE 0)

\* the positions fuzzy_search selects
TopIdx(scores, top_k) == Slice(SortedDesc(scores), top_k)

\* the same without the test scores[i] > 0
KeptAll(scores, top_k) == TopIdx(scores, top_k)

\* the positions fuzzy_search keeps
Kept(scores, top_k) ==
  LET Positive(i) == scores[i] > 0 IN SelectSeq(TopIdx(scores, top_k), Positive)

\* docs[i] raises IndexError for a kept position past the document list
FuzzyRaises(bm, docs, term, top_k) ==
  LET kept == Kept(get_scores(bm, Lower(term)), top_k)
  IN \E p \in 1..Len(kept) : kept[p] > Len(docs)

\* the list fuzzy_search returns from the pair of _get_bm25
FuzzyResult(bm, docs, term, top_k) ==
  LET scores == get_scores(bm, Lower(term))
      kept == Kept(scores, top_k)
  IN [p \in 1..Len(kept) |->
       [uri |-> _compact_uri(docs[kept[p]].uri),
        label |-> docs[kept[p]].label,
        score |-> Round2(scores[kept[p]])]]

\* the document and the corpus entry _get_bm25 makes of one row
DocOf(r) ==
  [uri |-> Str(r.c), label |-> Str(r.label),
   definition |-> IF r.def # Unbound /\ Str(r.def) # <<>> THEN Str(r.def) ELSE <<>>]
CorpusEntry(d) == Lower(d.label \o d.definition)

(***************************************************************************)
(* The queries of the older server module (main.py).  query() returns the  *)
(* bindings of a SELECT as maps from a variable to {type, value}.          *)
(***************************************************************************)

\* the order of str values: words and local names in alphabetical order
WordOrder ==
  <<"Agent", "Agreement", "Authorized", "Bank", "Business", "BusinessEntityType",
    "Central", "CentralBank", "Credit", "Depositary", "Entity", "Financial",
    "FinancialInstitution", "Identifier", "Institution", "Legal",
    "LegalEntityIdentifier", "LoanContract", "MortgageLoanContract", "Reserve",
    "StudentLoanContract", "Type", "bank", "custodian", "intermediary", "lending">>
WordRank(a) ==
  IF \E i \in 1..Len(WordOrder) : WordOrder[i] = a
  THEN CHOOSE i \in 1..Len(WordOrder) : WordOrder[i] = a
  ELSE 0

\* a < b for two strings
RECURSIVE StrLess(_, _)
StrLess(a, b) ==
  IF b = <<>> THEN FALSE
  ELSE IF a = <<>> THEN TRUE
  ELSE IF a[1] # b[1] THEN WordRank(a[1]) < WordRank(b[1])
  ELSE StrLess(Tail(a), Tail(b))

\* val_str.startswith("http")
IsHttp(str) == str # <<>> /\ str[1] \in {RDF, RDFS, OWL, SKOS, CMNS, FIBO}

\* query(), lines 50-61: the binding of one row
Binding(row, vars) ==
  LET bound == {v \in Range(vars) : row[v] # Unbound}
  IN [v \in bound |->
       [type |-> IF IsHttp(Str(row[v])) THEN "uri" ELSE "literal",
        value |-> Str(row[v])]]

Bindings(rows, vars) == [i \in 1..Len(rows) |-> Binding(rows[i], vars)]

\* ORDER BY: the position of row i among rows under the strict order Less,
\* rows that Less does not separate staying in the engine's order
OrderedBy(rows, Less(_, _)) ==
  LET Before(i, j) == Less(rows[i], rows[j]) \/ (~Less(rows[j], rows[i]) /\ i < j)
      Pos(i) == Cardinality({j \in 1..Len(rows) : Before(j, i)}) + 1
  IN [p \in 1..Len(rows) |-> rows[CHOOSE i \in 1..Len(rows) : Pos(i) = p]]

\* DISTINCT: the first occurrence of every row
Distinct(rows) ==
  LET First(i) == \A j \in 1..(i - 1) : rows[j] # rows[i]
      keep == {i \in 1..Len(rows) : First(i)}
      Nth(p) == CHOOSE i \in keep : Cardinality({j \in keep : j < i}) = p - 1
  IN [p \in 1..Cardinality(keep) |-> rows[Nth(p)]]

\* LIMIT n
Limit(rows, n) == SubSeq(rows, 1, IF n < Len(rows) THEN n ELSE Len(rows))

SearchVars == <<"entity", "label", "type", "definition">>

\* the sort keys of the label search: classes first, then rows with a
\* definition, then by label; a row with no type has no first key and sorts
\* ahead of the rows that have one
SearchLess(a, b) ==
  LET k1(r) == IF r.type = Unbound THEN -1 ELSE IF r.type = OwlClass THEN 0 ELSE 1
      k2(r) == IF r.definition # Unbound THEN 0 ELSE 1
  IN \/ k1(a) < k1(b)
     \/ k1(a) = k1(b) /\ k2(a) < k2(b)
     \/ k1(a) = k1(b) /\ k2(a) = k2(b) /\ StrLess(Str(a.label), Str(b.label))

\* the label search of search_by_label (lines 114-129) and explore_concept
\* (lines 218-233) for a non-empty list of terms
LabelSearch(ts, terms, lim) ==
  LET IsHit(t) ==
        /\ t.p = "label"
        /\ \E k \in 1..Len(terms) : Contains(Lower(Str(t.o)), Lower(terms[k]))
      ls == SelectSeq(ts, IsHit)
      RowsOf(t) ==
        LET tys == Optional(Objects(ts, t.s, "a"))
            ds == Optional(Objects(ts, t.s, "definition"))
        IN Flatten([i \in 1..Len(tys) |-> [j \in 1..Len(ds) |->
             [entity |-> SubjectNode(t.s), label |-> t.o, type |-> tys[i],
              definition |-> ds[j]]]])
      rows == Flatten([i \in 1..Len(ls) |-> RowsOf(ls[i])])
  IN Bindings(Limit(Distinct(OrderedBy(rows, SearchLess)), lim), SearchVars)

\* the IRI of a predicate of the model's graphs
PropIri(p) ==
  CASE p = "a" -> Iri(<<RDF, "type">>)
    [] p = "label" -> Iri(<<RDFS, "label">>)
    [] p = "subClassOf" -> Iri(<<RDFS, "subClassOf">>)
    [] p = "definition" -> Iri(<<SKOS, "definition">>)
    [] OTHER -> Iri(<<OWL, p>>)

DetailVars == <<"property", "value", "valueLabel">>

\* the details query of explore_concept (lines 249-256)
DetailsQuery(ts, top_uri) ==
  LET Of(t) == t.s = top_uri
      hs == SelectSeq(ts, Of)
      RowsOf(t) ==
        LET vls == IF t.o.k = "lit" THEN <<Unbound>>
                   ELSE Optional(Objects(ts, t.o.v, "label"))
        IN [j \in 1..Len(vls) |->
             [property |-> PropIri(t.p), value |-> t.o, valueLabel |-> vls[j]]]
  IN Bindings(Limit(Flatten([i \in 1..Len(hs) |-> RowsOf(hs[i])]), 20), DetailVars)

\* the nodes reached from the nodes S by one or more subClassOf steps, in
\* the direction up (to the objects) or down (to the subjects)
RECURSIVE Reach(_, _, _, _)
Reach(ts, S, up, n) ==
  LET next == {IF up THEN ts[i].o.v ELSE ts[i].s :
                 i \in {j \in 1..Len(ts) :
                          /\ ts[j].p = "subClassOf" /\ ts[j].o.k # "lit"
                          /\ (IF up THEN ts[j].s ELSE ts[j].o.v) \in S}}
  IN IF n = 0 \/ next \subseteq S THEN next
     ELSE next \cup Reach(ts, S \cup next, up, n - 1)

HierarchyVars == <<"related", "label", "type">>

\* ORDER BY ?type ?related of the hierarchy query
HierarchyLess(a, b) ==
  \/ StrLess(Str(a.type), Str(b.type))
  \/ a.type = b.type /\ StrLess(Str(a.related), Str(b.related))

\* the hierarchy query of explore_concept (lines 264-274)
HierarchyQuery(ts, top_uri) ==
  LET Side(up, name) ==
        LET rel == Reach(ts, {top_uri}, up, Len(ts))
            order == SelectSeq([i \in 1..Len(ts) |-> IF up THEN ts[i].o.v ELSE ts[i].s],
                               LAMBDA x : x \in rel)
        IN Flatten([i \in 1..Len(order) |->
             LET lbs == Optional(Objects(ts, order[i], "label"))
             IN [j \in 1..Len(lbs) |->
                  [related |-> SubjectNode(order[i]), label |-> lbs[j],
                   type |-> Lit(<<name>>)]]])
      rows == Side(TRUE, "superclass") \o Side(FALSE, "subclass")
  IN Bindings(Limit(Distinct(OrderedBy(rows, HierarchyLess)), 10), HierarchyVars)

\* the synonym table of explore_concept (lines 198-204); a search term is
\* held as the list of terms that split(",") and strip() make of it
expansions ==
  [c \in {"country", "company", "person", "bank", "money"} |->
     CASE c = "country" -> <<<<"country">>, <<"jurisdiction">>, <<"government">>,
                             <<"polity">>, <<"sovereign">>, <<"nation">>>>
       [] c = "company" -> <<<<"company">>, <<"organization">>, <<"corporation">>,
                             <<"entity">>, <<"firm">>>>
       [] c = "person" -> <<<<"person">>, <<"individual">>, <<"party">>, <<"agent">>>>
       [] c = "bank" -> <<<<"bank">>, <<"institution">>, <<"depositary">>,
                          <<"financial">>>>
       [] OTHER -> <<<<"money">>, <<"currency">>, <<"monetary">>, <<"funds">>>>]

\* the terms of a search term that is one phrase, or empty
TermsOf(concept) == IF concept = <<>> THEN <<>> ELSE <<concept>>

\* is concept.lower() a key of the table
IsSynonymKey(concept) == Len(concept) = 1 /\ LowerAtom(concept[1]) \in DOMAIN expansions

\* lines 206-210: the terms explore_concept searches for
ExpandedTerms(concept) ==
  IF IsSynonymKey(concept) THEN expansions[LowerAtom(concept[1])] ELSE TermsOf(concept)

\* min(max(limit, 1), 100)
LimitCap == 100
Clamp(limit) ==
  LET low == IF limit > 1 THEN limit ELSE 1 IN IF low < LimitCap THEN low ELSE LimitCap

\* explore_concept (lines 195-286) on the triples ts: the payload, or the
\* exception terms[0] raises for an empty concept
ExploreRaises(concept) == ExpandedTerms(concept) = <<>>

explore_concept(ts, concept, limit) ==
  LET terms == ExpandedTerms(concept)
      found == LabelSearch(ts, terms, Clamp(limit))
      top == found[1]
      isClass == "type" \in DOMAIN top /\ top.type.value = Str(OwlClass)
  IN IF found = <<>>
     THEN [summary |-> <<"No", "FIBO", "entities", "found", "for">> \o concept,
           search |-> found,
           _suggestion |-> terms]
     ELSE [summary |-> IF "definition" \in DOMAIN top THEN top.definition.value
                       ELSE <<"No", "definition", "available">>,
           top_result |-> top,
           details |-> DetailsQuery(ts, top.entity.value),
           hierarchy |-> IF isClass THEN HierarchyQuery(ts, top.entity.value) ELSE <<>>,
           all_search_results |-> found,
           _note |-> terms]

\* uri_str.lower(), as the words a term can be found in: the words of the
\* namespace and the words of the local name
UriLower(uri) ==
  LET ns == IF uri[1] = FIBO THEN <<"spec.edmcouncil.org", "fibo", "ontology">>
            ELSE IF uri[1] = CMNS THEN <<"www.omg.org", "spec", "commons">>
            ELSE <<uri[1]>>
      name ==
        CASE uri[2] = "LoanContract" -> <<"loan", "contract">>
          [] uri[2] = "MortgageLoanContract" -> <<"mortgage", "loan", "contract">>
          [] uri[2] = "StudentLoanContract" -> <<"student", "loan", "contract">>
          [] uri[2] = "LoanContractOfAcme" -> <<"loan", "contract", "of", "acme">>
          [] uri[2] = "CentralBank" -> <<"central", "bank">>
          [] uri[2] = "FinancialInstitution" -> <<"financial", "institution">>
          [] uri[2] = "LegalEntityIdentifier" -> <<"legal", "entity", "identifier">>
          [] uri[2] = "BusinessEntityType" -> <<"business", "entity", "type">>
          [] OTHER -> <<LowerAtom(uri[2])>>
  IN ns \o name

\* "spec.edmcouncil.org/fibo/ontology" in uri_str
InFibo(uri) == uri[1] = FIBO

\* json null
JsonNull == [type |-> "null"]

RelatedCap == 5

\* the same with no break: every class found for the first three terms
RelatedUncut(ts, terms) ==
  LET IsClassDecl(t) == t.p = "a" /\ t.o = OwlClass
      cs == SelectSeq(ts, IsClassDecl)
      first3 == SubSeq(terms, 1, IF Len(terms) < 3 THEN Len(terms) ELSE 3)
      Entry(subj) ==
        LET ls == Objects(ts, subj, "label")
            ds == Objects(ts, subj, "definition")
        IN [class |-> [type |-> "uri", value |-> subj],
            label |-> IF ls # <<>> /\ Str(ls[1]) # <<>>
                      THEN [type |-> "literal", value |-> Str(ls[1])] ELSE JsonNull,
            definition |-> IF ds # <<>> /\ Str(ds[1]) # <<>>
                           THEN [type |-> "literal", value |-> Str(ds[1])]
                           ELSE JsonNull]
      Hits(term) ==
        LET Is(t) == ~IsBlank(t.s) /\ InFibo(t.s) /\ Contains(UriLower(t.s), Lower(term))
            hs == SelectSeq(cs, Is)
        IN [i \in 1..Len(hs) |-> Entry(hs[i].s)]
  IN Flatten([k \in 1..Len(first3) |-> Hits(first3[k])])

\* search_by_label lines 141-159: for each of the first three terms, the
\* classes of FIBO whose URI contains it, in the order the graph gives them;
\* both loops end when five are found
Related(ts, terms) ==
  LET IsClassDecl(t) == t.p = "a" /\ t.o = OwlClass
      cs == SelectSeq(ts, IsClassDecl)
      first3 == SubSeq(terms, 1, IF Len(terms) < 3 THEN Len(terms) ELSE 3)
      Entry(subj) ==
        LET ls == Objects(ts, subj, "label")
            ds == Objects(ts, subj, "definition")
        IN [class |-> [type |-> "uri", value |-> subj],
            label |-> IF ls # <<>> /\ Str(ls[1]) # <<>>
                      THEN [type |-> "literal", value |-> Str(ls[1])] ELSE JsonNull,
            definition |-> IF ds # <<>> /\ Str(ds[1]) # <<>>
                           THEN [type |-> "literal", value |-> Str(ds[1])]
                           ELSE JsonNull]
      Hits(term) ==
        LET Is(t) == ~IsBlank(t.s) /\ InFibo(t.s) /\ Contains(UriLower(t.s), Lower(term))
            hs == SelectSeq(cs, Is)
        IN [i \in 1..Len(hs) |-> Entry(hs[i].s)]
  IN Limit(Flatten([k \in 1..Len(first3) |-> Hits(first3[k])]), RelatedCap)

\* search_by_label raises at terms[0] (line 112) when no term is left
SearchRaises(terms) == terms = <<>>

\* search_by_label (lines 102-178) on the triples ts, for the terms that
\* split(",") and strip() make of search_term: the payload
search_by_label(ts, terms, limit) ==
  LET bindings == LabelSearch(ts, terms, Clamp(limit))
      data == [head |-> SearchVars, results |-> [bindings |-> bindings]]
      related == Related(ts, terms)
      upto5 == SubSeq(terms, 1, IF Len(terms) < 5 THEN Len(terms) ELSE 5)
  IN IF Len(bindings) = 0
     THEN IF related # <<>>
          THEN [head |-> data.head, results |-> data.results,
                _suggestion |-> [message |-> Len(related),
                                 action |-> "get_entity_details",
                                 related_classes |-> related]]
          ELSE [head |-> data.head, results |-> data.results,
                _suggestion |-> [message |-> 0,
                                 action |-> "list_classes",
                                 hint |-> upto5]]
     ELSE [head |-> data.head, results |-> data.results,
           _next_steps |-> "get_entity_details"]

(***************************************************************************)
(* The process state.  Module-level variables keep their names.  Graph     *)
(* objects and document lists are mutable objects shared by reference:     *)
(* they live in two heaps, and 0 is the reference None.                    *)
(***************************************************************************)

VARIABLES
  file_store,     \* loader.STORE_PATH (data/fibo.ttl)
  file_mat,       \* loader.MATERIALIZED_PATH (data/fibo_materialized.ttl)
  upstream,       \* what git clone fetches, or that it fails
  _graph,         \* loader._graph: a graph object, or 0
  _materialized,  \* loader._materialized
  graphs,         \* the heap of rdflib.Graph objects
  _bm25_index,    \* fibo._bm25_index
  _docs_data,     \* fibo._docs_data: a list object, or 0
  lists,          \* the heap of document lists
  th,             \* the request each thread serves and its local variables
  halted,         \* sys.exit was called
  hist,           \* what the callers have seen: the answers returned so far
  main_g,         \* main.g: the graph of the older server module main.py
  main_store,     \* main.STORE_PATH (data/fibo.db)
  main_dir,       \* main.FIBO_DIR (data/fibo): the clone, if there is one
  mc              \* the call main.py serves and its local variables

\* the state of loader.py and fibo.py, and the state of main.py
loadvars == <<file_store, file_mat, _graph, _materialized, graphs,
              _bm25_index, _docs_data, lists, th>>
fibovars == <<loadvars, upstream, halted>>
mainvars == <<main_g, main_store, main_dir, mc>>

vars == <<fibovars, hist, mainvars>>

\* the threads that serve requests
Threads == {"t1", "t2"}

\* one object for every reference that can exist, and one to allocate
ObjIds == 1..(Cardinality(Threads) + 2)

\* a cache file: absent, unparsable, or a serialized graph
Absent == [state |-> "absent", gv |-> BlankGraph]
Corrupt == [state |-> "corrupt", gv |-> BlankGraph]
Stored(gv) == [state |-> "ok", gv |-> gv]

\* _bm25_index: None, or a BM25Okapi object
NoIndex == [some |-> FALSE, bm |-> [docs |-> <<>>, total |-> 0, idf |-> <<>>]]
\* the same with an index over no documents kept in place of the built one
SomeUnbuilt(bm) == [some |-> TRUE, bm |-> [docs |-> <<>>, total |-> 0, idf |-> <<>>]]
Some(bm) == [some |-> TRUE, bm |-> bm]

NoResp == [kind |-> "none"]
Payload(body) == [kind |-> "payload", body |-> body]
Raised(exc) == [kind |-> "raise", exc |-> exc]
Value(v) == [kind |-> "value", v |-> v]

\* sparql and search pass top_k = 10
SuggestionCount == 10

\* the free-text terms and the short or full URIs the model submits
Terms == {<<"Entity">>, <<"bank">>, <<"central", "reserve">>}
Uris == {<<"fibo:", "LegalEntityIdentifier">>, BusinessEntityType, <<"fibo:", "a b">>,
         <<OWL, "Thing">>, <<"http://example.org/", "Thing">>}
\* the result limits the model submits to fuzzy_search
MaxTopK == 2
TopKs == (-1..MaxTopK) \cup {SuggestionCount}


\* the caller's record of the sparql call before, and of the graph get_graph
\* returned for each value of materialize since the last forced reload
NoCall == [op |-> "none", query |-> QAll, resp |-> NoResp]
NoGraphSeen == [some |-> FALSE, obj |-> 0, gv |-> BlankGraph]
NoHistory == [prev |-> NoCall, gg |-> [m \in BOOLEAN |-> NoGraphSeen]]

IdleThread ==
  [pc |-> "idle", op |-> "none", query |-> QAll, term |-> <<>>, uri |-> <<>>,
   top_k |-> 0, force |-> FALSE, materialize |-> FALSE, ret |-> "none",
   graph |-> 0, docs |-> 0, bm |-> NoIndex.bm, rows |-> <<>>, corpus |-> <<>>,
   result |-> [results |-> <<>>, count |-> 0], intry |-> FALSE, resp |-> NoResp]

\* main.g: None, or a Graph with the triples of a graph value
NoMainGraph == [set |-> FALSE, gv |-> BlankGraph]
MainGraph(gv) == [set |-> TRUE, gv |-> gv]

\* main.FIBO_DIR does not exist
NoDir == "none"

\* the concepts and limits the model submits to explore_concept
Concepts == {<<"bank">>, <<"Bank">>, <<"depositary">>, <<>>}
ExploreDefaultLimit == 5
MaxLimit == 2
Limits == (0..MaxLimit) \cup {ExploreDefaultLimit}

\* the search terms the model submits to search_by_label, each as the list
\* of its terms: "", "bank", "loan", "loan,contract", "fund,share,deposit,loan"
SearchTerms ==
  {<<>>, <<<<"bank">>>>, <<<<"loan">>>>, <<<<"loan">>, <<"contract">>>>,
   <<<<"fund">>, <<"share">>, <<"deposit">>, <<"loan">>>>}
SearchDefaultLimit == 20

\* what download_fibo met and did: was there a cache file and a clone when it
\* was called, and did it run git clone
NoDownload == [cache |-> FALSE, repo |-> FALSE, clone |-> "none"]

IdleCall ==
  [pc |-> "idle", op |-> "none", concept |-> <<>>, search_term |-> <<>>,
   limit |-> 0, force |-> FALSE, dl |-> NoDownload, resp |-> NoResp]

\* main.py is not running
MainIdle ==
  main_g = NoMainGraph /\ main_store = Absent /\ main_dir = NoDir /\ mc = IdleCall

TypeOK ==
  /\ main_g.set \in BOOLEAN
  /\ main_store.state \in {"absent", "corrupt", "ok"}
  /\ main_dir \in GraphIds \cup {NoDir}
  /\ mc.pc \in {"idle", "init", "parse", "setup", "download", "load", "run", "done"}
  /\ mc.dl.clone \in {"none", "failed", "done"}
  /\ hist.prev.op \in {"none", "sparql"}
  /\ file_store.state \in {"absent", "corrupt", "ok"}
  /\ file_mat.state \in {"absent", "corrupt", "ok"}
  /\ upstream \in GraphIds \cup {"unreachable"}
  /\ _graph \in ObjIds \cup {0}
  /\ _materialized \in BOOLEAN
  /\ DOMAIN graphs = ObjIds
  /\ _bm25_index.some \in BOOLEAN
  /\ _docs_data \in ObjIds \cup {0}
  /\ DOMAIN lists = ObjIds
  /\ DOMAIN th = Threads
  /\ halted \in BOOLEAN

Init ==
  /\ file_store \in {Absent, Corrupt, Stored(GraphOf("GA")), Stored(GraphOf("GN"))}
  /\ file_mat \in {Absent} \cup
       (IF file_store.state = "ok" THEN {Stored([file_store.gv EXCEPT !.inf = TRUE])}
        ELSE {})
  /\ upstream \in {"GB", "unreachable"}
  /\ _graph = 0
  /\ _materialized = FALSE
  /\ graphs = [o \in ObjIds |-> BlankGraph]
  /\ _bm25_index = NoIndex
  /\ _docs_data = 0
  /\ lists = [o \in ObjIds |-> <<>>]
  /\ th = [t \in Threads |-> IdleThread]
  /\ halted = FALSE
  /\ hist = NoHistory
  /\ MainIdle

\* main.py starts: loader.py and fibo.py are not running
InitMain ==
  /\ file_store = Absent /\ file_mat = Absent
  /\ _graph = 0 /\ _materialized = FALSE
  /\ graphs = [o \in ObjIds |-> BlankGraph]
  /\ _bm25_index = NoIndex /\ _docs_data = 0
  /\ lists = [o \in ObjIds |-> <<>>]
  /\ th = [t \in Threads |-> IdleThread]
  /\ halted = FALSE
  /\ hist = NoHistory
  /\ upstream \in {"GM", "unreachable"}
  /\ main_g = NoMainGraph
  /\ main_store \in {Absent, Corrupt, Stored(GraphOf("GM")), Stored(GraphOf("GB")),
                     Stored(GraphOf("GU"))}
  /\ main_dir \in {NoDir, "GB"}
  /\ mc = IdleCall

\* the objects some variable refers to; the others are garbage
GraphRefs(g, ths) == ({g} \cup {ths[t].graph : t \in Threads}) \ {0}
ListRefs(d, ths) == ({d} \cup {ths[t].docs : t \in Threads}) \ {0}

\* Graph() and [] allocate the least object no variable refers to
NewGraph == CHOOSE o \in ObjIds \ GraphRefs(_graph, th) :
              \A p \in ObjIds \ GraphRefs(_graph, th) : o <= p
NewList == CHOOSE o \in ObjIds \ ListRefs(_docs_data, th) :
             \A p \in ObjIds \ ListRefs(_docs_data, th) : o <= p

\* a heap with its garbage collected
CollectGraphs(h, g, ths) ==
  [o \in ObjIds |-> IF o \in GraphRefs(g, ths) THEN h[o] ELSE BlankGraph]
CollectLists(h, d, ths) ==
  [o \in ObjIds |-> IF o \in ListRefs(d, ths) THEN h[o] ELSE <<>>]

\* str(e)
ExcMessage(exc) ==
  CASE exc = "ZeroDivisionError" -> <<"division", "by", "zero">>
    [] exc = "IndexError" -> <<"list", "index", "out", "of", "range">>
    [] exc = "FileNotFoundError" -> <<"No", "such", "file">>
    [] exc = "AttributeError" -> <<"NoneType", "has", "no", "attribute", "parse">>
    [] exc = "BadSyntax" -> <<"Bad", "syntax">>
    [] OTHER -> <<exc>>

\* the same with no try block around the query: the exception reaches the caller
PropagateUncaught(r, exc, msg) == [r EXCEPT !.pc = "done", !.resp = Raised(exc)]

\* the same with the error added to the result built so far: a failure of
\* the suggestions leaves the rows and their count in the payload
PropagatePartial(r, exc, msg) ==
  [r EXCEPT !.pc = "done",
            !.resp = IF ~r.intry THEN Raised(exc)
                     ELSE IF r.op = "sparql" /\ r.pc # "sq_query"
                     THEN Payload([results |-> r.result.results,
                                   count |-> r.result.count, error |-> msg])
                     ELSE Payload([error |-> msg])]

\* thread record r after an exception with message msg propagates: the try
\* block of sparql turns it into an error payload, elsewhere it reaches the
\* caller of the tool
Propagate(r, exc, msg) ==
  [r EXCEPT !.pc = "done",
            !.resp = IF r.intry THEN Payload([error |-> msg]) ELSE Raised(exc)]

(***************************************************************************)
(* get_graph (loader.py).  Its steps are the places where another thread's *)
(* assignment to a module-level variable can come between.                 *)
(***************************************************************************)

\* thread record r after get_graph returns object g to its caller
Returned(r, g) ==
  IF r.ret = "gg_done"
  THEN [r EXCEPT !.graph = g, !.pc = "done", !.resp = Value(g)]
  ELSE [r EXCEPT !.graph = g, !.pc = r.ret]

\* DeductiveClosure(OWLRL_Semantics).expand(graph), in place
Expanded(h, o) == [h EXCEPT ![o].inf = TRUE]

\* graph.parse(data=content): the file's triples are added to the object
Parsed(h, o, file) ==
  [h EXCEPT ![o] = [base |-> h[o].base \cup file.gv.base,
                    inf |-> h[o].inf \/ file.gv.inf]]

\* _materialize_graph(_graph) does something: the flag is not set yet
Materializes(r) == r.materialize /\ ~_materialized

\* lines 44-54: the cached graph is returned (expanded first if asked for
\* and not done yet), or the caches are dropped on force_download
GG_Enter(t) ==
  LET r == th[t] IN
  /\ ~halted /\ r.pc = "gg_enter"
  /\ UNCHANGED <<hist, mainvars>>
  /\ IF _graph # 0 /\ ~r.force
     THEN LET h == IF Materializes(r) THEN Expanded(graphs, _graph) ELSE graphs IN
          /\ th' = [th EXCEPT ![t] = Returned(r, _graph)]
          /\ _materialized' = (_materialized \/ r.materialize)
          /\ file_mat' = IF Materializes(r) THEN Stored(h[_graph]) ELSE file_mat
          /\ graphs' = CollectGraphs(h, _graph, th')
          /\ UNCHANGED <<file_store, _graph>>
     ELSE /\ th' = [th EXCEPT ![t] = [r EXCEPT !.pc = "gg_load"]]
          /\ file_store' = IF r.force THEN Absent ELSE file_store
          /\ file_mat' = IF r.force THEN Absent ELSE file_mat
          /\ _graph' = IF r.force THEN 0 ELSE _graph
          /\ _materialized' = IF r.force THEN FALSE ELSE _materialized
          /\ graphs' = CollectGraphs(graphs, _graph', th')
  /\ UNCHANGED <<upstream, _bm25_index, _docs_data, lists, halted>>

\* lines 57-59, 66-68, 77: the source is chosen; for a cache file,
\* _graph = Graph() is assigned before the file is read
GG_Load(t) ==
  LET r == th[t]
      fromMat == r.materialize /\ file_mat.state # "absent"
      fromStore == ~fromMat /\ file_store.state # "absent"
  IN
  /\ ~halted /\ r.pc = "gg_load"
  /\ UNCHANGED <<hist, mainvars>>
  /\ th' = [th EXCEPT ![t] = [r EXCEPT !.pc =
              IF fromMat THEN "gg_parse_mat"
              ELSE IF fromStore THEN "gg_parse_store" ELSE "gg_download"]]
  /\ _graph' = IF fromMat \/ fromStore THEN NewGraph ELSE _graph
  /\ graphs' = CollectGraphs(graphs, _graph', th')
  /\ UNCHANGED <<file_store, file_mat, upstream, _materialized, _bm25_index,
                 _docs_data, lists, halted>>

\* lines 60-64: the pre-materialized file is read and parsed into _graph
GG_ParseMat(t) ==
  LET r == th[t]
      exc == IF file_mat.state = "absent" THEN "FileNotFoundError"
             ELSE IF _graph = 0 THEN "AttributeError"
             ELSE IF file_mat.state = "corrupt" THEN "BadSyntax" ELSE "none"
  IN
  /\ ~halted /\ r.pc = "gg_parse_mat"
  /\ UNCHANGED <<hist, mainvars>>
  /\ IF exc # "none"
     THEN /\ th' = [th EXCEPT ![t] = Propagate(r, exc, ExcMessage(exc))]
          /\ graphs' = CollectGraphs(graphs, _graph, th')
          /\ UNCHANGED _materialized
     ELSE /\ th' = [th EXCEPT ![t] = Returned(r, _graph)]
          /\ graphs' = CollectGraphs(Parsed(graphs, _graph, file_mat), _graph, th')
          /\ _materialized' = TRUE
  /\ UNCHANGED <<file_store, file_mat, upstream, _graph, _bm25_index,
                 _docs_data, lists, halted>>

\* lines 69-74: the base file is read and parsed into _graph, which is
\* expanded if asked for
GG_ParseStore(t) ==
  LET r == th[t]
      exc == IF file_store.state = "absent" THEN "FileNotFoundError"
             ELSE IF _graph = 0 THEN "AttributeError"
             ELSE IF file_store.state = "corrupt" THEN "BadSyntax" ELSE "none"
      parsed == Parsed(graphs, _graph, file_store)
      h == IF Materializes(r) THEN Expanded(parsed, _graph) ELSE parsed
  IN
  /\ ~halted /\ r.pc = "gg_parse_store"
  /\ UNCHANGED <<hist, mainvars>>
  /\ IF exc # "none"
     THEN /\ th' = [th EXCEPT ![t] = Propagate(r, exc, ExcMessage(exc))]
          /\ graphs' = CollectGraphs(graphs, _graph, th')
          /\ UNCHANGED <<_materialized, file_mat>>
     ELSE /\ th' = [th EXCEPT ![t] = Returned(r, _graph)]
          /\ graphs' = CollectGraphs(h, _graph, th')
          /\ _materialized' = (_materialized \/ r.materialize)
          /\ file_mat' = IF Materializes(r) THEN Stored(h[_graph]) ELSE file_mat
  /\ UNCHANGED <<file_store, upstream, _graph, _bm25_index, _docs_data, lists,
                 halted>>

\* lines 78-81 and _download_and_build: the clone fails and the process
\* exits, or the graph is built, serialized to the base file, assigned to
\* _graph and expanded if asked for
GG_Download(t) ==
  LET r == th[t]
      o == NewGraph
      built == [graphs EXCEPT ![o] = GraphOf(upstream)]
      h == IF Materializes(r) THEN Expanded(built, o) ELSE built
  IN
  /\ ~halted /\ r.pc = "gg_download"
  /\ UNCHANGED <<hist, mainvars>>
  /\ IF upstream = "unreachable"
     THEN /\ th' = [th EXCEPT ![t] = [r EXCEPT !.pc = "done",
                                               !.resp = Raised("SystemExit")]]
          /\ halted' = TRUE
          /\ graphs' = CollectGraphs(graphs, _graph, th')
          /\ UNCHANGED <<file_store, file_mat, _graph, _materialized>>
     ELSE /\ th' = [th EXCEPT ![t] = Returned(r, o)]
          /\ file_store' = Stored(GraphOf(upstream))
          /\ _graph' = o
          /\ graphs' = CollectGraphs(h, o, th')
          /\ _materialized' = (_materialized \/ r.materialize)
          /\ file_mat' = IF Materializes(r) THEN Stored(h[o]) ELSE file_mat
          /\ UNCHANGED halted
  /\ UNCHANGED <<upstream, _bm25_index, _docs_data, lists>>

(***************************************************************************)
(* _get_bm25 and fuzzy_search (fibo.py)                                    *)
(***************************************************************************)

\* line 38: the index exists and the pair is returned (line 57), or the
\* build begins with get_graph() (line 41)
BM_Check(t) ==
  LET r == th[t] IN
  /\ ~halted /\ r.pc = "bm_check"
  /\ UNCHANGED <<hist, mainvars>>
  /\ th' = [th EXCEPT ![t] =
       IF _bm25_index.some
       THEN [r EXCEPT !.bm = _bm25_index.bm, !.docs = _docs_data, !.pc = "fz_score"]
       ELSE [r EXCEPT !.force = FALSE, !.materialize = FALSE,
                      !.ret = "bm_query", !.pc = "gg_enter"]]
  /\ lists' = CollectLists(lists, _docs_data, th')
  /\ UNCHANGED <<file_store, file_mat, upstream, _graph, _materialized, graphs,
                 _bm25_index, _docs_data, halted>>

\* lines 42-50: the class query is evaluated, _docs_data = [] and corpus = []
BM_Query(t) ==
  LET r == th[t] IN
  /\ ~halted /\ r.pc = "bm_query"
  /\ UNCHANGED <<hist, mainvars>>
  /\ th' = [th EXCEPT ![t] = [r EXCEPT !.rows = ClassQuery(Triples(graphs[r.graph])),
                                       !.corpus = <<>>, !.pc = "bm_loop"]]
  /\ _docs_data' = NewList
  /\ lists' = CollectLists([lists EXCEPT ![NewList] = <<>>], _docs_data', th')
  /\ UNCHANGED <<file_store, file_mat, upstream, _graph, _materialized, graphs,
                 _bm25_index, halted>>

\* lines 51-55, one row: the document is appended to the list the module
\* variable _docs_data names now, its words to the local corpus
BM_Loop(t) ==
  LET r == th[t]
      d == DocOf(Head(r.rows))
  IN
  /\ ~halted /\ r.pc = "bm_loop" /\ r.rows # <<>>
  /\ UNCHANGED <<hist, mainvars>>
  /\ th' = [th EXCEPT ![t] = [r EXCEPT !.rows = Tail(r.rows),
                                       !.corpus = Append(r.corpus, CorpusEntry(d))]]
  /\ lists' = [lists EXCEPT ![_docs_data] = Append(lists[_docs_data], d)]
  /\ UNCHANGED <<file_store, file_mat, upstream, _graph, _materialized, graphs,
                 _bm25_index, _docs_data, halted>>

\* lines 56-57: the statistics are built over the local corpus and assigned,
\* and the pair of module variables is returned
BM_Build(t) ==
  LET r == th[t] IN
  /\ ~halted /\ r.pc = "bm_loop" /\ r.rows = <<>>
  /\ UNCHANGED <<hist, mainvars>>
  /\ IF BuildRaises(r.corpus)
     THEN /\ th' = [th EXCEPT ![t] = Propagate(r, "ZeroDivisionError",
                                               ExcMessage("ZeroDivisionError"))]
          /\ UNCHANGED _bm25_index
     ELSE /\ th' = [th EXCEPT ![t] = [r EXCEPT !.bm = BM25Okapi(r.corpus),
                                               !.docs = _docs_data,
                                               !.pc = "fz_score"]]
          /\ _bm25_index' = Some(BM25Okapi(r.corpus))
  /\ lists' = CollectLists(lists, _docs_data, th')
  /\ UNCHANGED <<file_store, file_mat, upstream, _graph, _materialized, graphs,
                 _docs_data, halted>>

\* the same with a second filter behind the rounding: a suggestion whose
\* reported score is 0 is not attached
FuzzyPayloadDropZero(r, found) ==
  LET Shown(d) == d.score > 0 IN
  CASE r.op = "search" -> Payload([results |-> found, count |-> Len(found)])
    [] r.op = "sparql" -> Payload([results |-> r.result.results,
                                   count |-> r.result.count,
                                   suggestions |-> SelectSeq(found, Shown)])
    [] OTHER -> Value(found)

\* the payload a tool returns with the list of fuzzy_search
FuzzyPayload(r, found) ==
  CASE r.op = "search" -> Payload([results |-> found, count |-> Len(found)])
    [] r.op = "sparql" -> Payload([results |-> r.result.results,
                                   count |-> r.result.count,
                                   suggestions |-> found])
    [] OTHER -> Value(found)

\* fuzzy_search lines 76-86, and the return of search (137) or sparql (128)
FZ_Score(t) ==
  LET r == th[t] IN
  /\ ~halted /\ r.pc = "fz_score"
  /\ UNCHANGED <<hist, mainvars>>
  /\ th' = [th EXCEPT ![t] =
       IF FuzzyRaises(r.bm, lists[r.docs], r.term, r.top_k)
       THEN Propagate(r, "IndexError", ExcMessage("IndexError"))
       ELSE [r EXCEPT !.pc = "done",
                      !.resp = FuzzyPayload(r, FuzzyResult(r.bm, lists[r.docs],
                                                           r.term, r.top_k))]]
  /\ UNCHANGED <<file_store, file_mat, upstream, _graph, _materialized, graphs,
                 _bm25_index, _docs_data, lists, halted>>

(***************************************************************************)
(* The tool operations (fibo.py) and the direct calls of the loader        *)
(***************************************************************************)

Begin(t, r) ==
  /\ ~halted /\ th[t].pc = "idle"
  /\ UNCHANGED <<hist, mainvars>>
  /\ th' = [th EXCEPT ![t] = r]
  /\ UNCHANGED <<file_store, file_mat, upstream, _graph, _materialized, graphs,
                 _bm25_index, _docs_data, lists, halted>>

\* sparql(query), line 99: graph = get_graph()
StartSparql(t, q) ==
  Begin(t, [IdleThread EXCEPT !.op = "sparql", !.query = q,
                              !.ret = "sq_query", !.pc = "gg_enter"])

\* search(term), line 136: fuzzy_search(term, top_k=10)
StartSearch(t, term) ==
  Begin(t, [IdleThread EXCEPT !.op = "search", !.term = term,
                              !.top_k = SuggestionCount, !.pc = "bm_check"])

\* fuzzy_search(term, top_k) called by an importer of the module
StartFuzzy(t, term, k) ==
  Begin(t, [IdleThread EXCEPT !.op = "fuzzy_search", !.term = term,
                              !.top_k = k, !.pc = "bm_check"])

\* describe(uri), lines 141-142
StartDescribe(t, u) ==
  Begin(t, [IdleThread EXCEPT !.op = "describe", !.uri = u,
                              !.ret = "ds_query", !.pc = "gg_enter"])

\* restrictions(uri), lines 174-175
StartRestrictions(t, u) ==
  Begin(t, [IdleThread EXCEPT !.op = "restrictions", !.uri = u,
                              !.ret = "rs_query", !.pc = "gg_enter"])

\* get_graph(force_download, materialize) called by the server's start-up
\* or by an importer of the module
StartGetGraph(t, f, m) ==
  Begin(t, [IdleThread EXCEPT !.op = "get_graph", !.force = f, !.materialize = m,
                              !.ret = "gg_done", !.pc = "gg_enter"])

\* sparql lines 104-132: the query is evaluated and the rows compacted; with
\* a term extracted, fuzzy_search follows inside the try block
SQ_Query(t) ==
  LET r == [th[t] EXCEPT !.intry = TRUE]
      rows == EvalSelect(Triples(graphs[r.graph]), r.query)
      output == [i \in 1..Len(rows) |-> CompactRow(rows[i], SelectVars)]
      result == [results |-> output, count |-> Len(output)]
      term == _extract_search_term(r.query)
  IN
  /\ ~halted /\ r.pc = "sq_query"
  /\ UNCHANGED <<hist, mainvars>>
  /\ th' = [th EXCEPT ![t] =
       IF QueryRaises(r.query)
       THEN Propagate(r, "ParseException", QueryError(r.query))
       ELSE IF term # NoTerm
       THEN [r EXCEPT !.result = result, !.term = term,
                      !.top_k = SuggestionCount, !.pc = "bm_check"]
       ELSE [r EXCEPT !.pc = "done", !.resp = Payload(result)]]
  /\ UNCHANGED <<file_store, file_mat, upstream, _graph, _materialized, graphs,
                 _bm25_index, _docs_data, lists, halted>>

\* the payload of describe (lines 160-170) on graph value gv
describe(gv, uri) ==
  LET full_uri == _expand_uri(uri)
      rows == DescribeQuery(Triples(gv), full_uri)
      output == [i \in 1..Len(rows) |-> CompactRowTruthy(rows[i], DescribeVars)]
  IN IF ~ValidIri(full_uri) THEN [error |-> ExcMessage("ParseException")]
     ELSE [uri |-> _compact_uri(full_uri), results |-> output, count |-> Len(output)]

\* the payload of restrictions (lines 190-204) on graph value gv
restrictions(gv, uri) ==
  LET full_uri == _expand_uri(uri)
      rows == RestrictionQuery(Triples(gv), full_uri)
      output == [i \in 1..Len(rows) |-> CompactRowTruthy(rows[i], RestrictionVars)]
  IN IF ~ValidIri(full_uri) THEN [error |-> ExcMessage("ParseException")]
     ELSE [uri |-> _compact_uri(full_uri), restrictions |-> output,
           count |-> Len(output)]

DS_Query(t) ==
  LET r == th[t] IN
  /\ ~halted /\ r.pc = "ds_query"
  /\ UNCHANGED <<hist, mainvars>>
  /\ th' = [th EXCEPT ![t] = [r EXCEPT !.pc = "done",
              !.resp = Payload(describe(graphs[r.graph], r.uri))]]
  /\ UNCHANGED <<file_store, file_mat, upstream, _graph, _materialized, graphs,
                 _bm25_index, _docs_data, lists, halted>>

RS_Query(t) ==
  LET r == th[t] IN
  /\ ~halted /\ r.pc = "rs_query"
  /\ UNCHANGED <<hist, mainvars>>
  /\ th' = [th EXCEPT ![t] = [r EXCEPT !.pc = "done",
              !.resp = Payload(restrictions(graphs[r.graph], r.uri))]]
  /\ UNCHANGED <<file_store, file_mat, upstream, _graph, _materialized, graphs,
                 _bm25_index, _docs_data, lists, halted>>

\* what the caller remembers of the call of thread record r that returns:
\* the sparql call, if it is one, that came directly before the next call
Remember(r) ==
  [prev |-> IF r.op = "sparql"
            THEN [op |-> r.op, query |-> r.query, resp |-> r.resp]
            ELSE NoCall,
   gg |-> IF r.op = "get_graph" /\ r.resp.kind = "value"
          THEN [m \in BOOLEAN |->
                 IF m = r.materialize
                 THEN [some |-> TRUE, obj |-> r.resp.v, gv |-> graphs[r.resp.v]]
                 ELSE IF r.force THEN NoGraphSeen ELSE hist.gg[m]]
          ELSE hist.gg]

\* the caller takes the response; the thread's local variables die
Return(t) ==
  /\ ~halted /\ th[t].pc = "done"
  /\ hist' = Remember(th[t])
  /\ UNCHANGED mainvars
  /\ th' = [th EXCEPT ![t] = IdleThread]
  /\ graphs' = CollectGraphs(graphs, _graph, th')
  /\ lists' = CollectLists(lists, _docs_data, th')
  /\ UNCHANGED <<file_store, file_mat, upstream, _graph, _materialized,
                 _bm25_index, _docs_data, halted>>

\* what thread t can do next, the return to its caller aside, with the
\* requests drawn from the given queries, terms, limits and URIs
Step(t, Q, W, K, U) ==
  \/ \E q \in Q : StartSparql(t, q)
  \/ \E term \in W : StartSearch(t, term)
  \/ \E term \in W, k \in K : StartFuzzy(t, term, k)
  \/ \E u \in U : StartDescribe(t, u)
  \/ \E u \in U : StartRestrictions(t, u)
  \/ \E f \in BOOLEAN, m \in BOOLEAN : StartGetGraph(t, f, m)
  \/ GG_Enter(t)
  \/ GG_Load(t)
  \/ GG_ParseMat(t)
  \/ GG_ParseStore(t)
  \/ GG_Download(t)
  \/ BM_Check(t)
  \/ BM_Query(t)
  \/ BM_Loop(t)
  \/ BM_Build(t)
  \/ FZ_Score(t)
  \/ SQ_Query(t)
  \/ DS_Query(t)
  \/ RS_Query(t)

\* requests are served one at a time, each to its end, by one thread
Next == Step("t1", Queries, Terms, TopKs, Uris) \/ Return("t1")

Spec == Init /\ [][Next]_vars

\* the first request of every thread, the requests overlapping
NextFirst ==
  \E t \in Threads :
    Step(t, {QInvalid, QLcase}, {<<"Entity">>}, {SuggestionCount}, {BusinessEntityType})

SpecFirst == Init /\ [][NextFirst]_vars

(***************************************************************************)
(* main.py: init_graph and explore_concept, one call at a time             *)
(***************************************************************************)

MainBegin(call) ==
  /\ ~halted /\ mc.pc = "idle"
  /\ mc' = call
  /\ UNCHANGED <<loadvars, upstream, halted, hist, main_g, main_store, main_dir>>

\* init_graph() called by run_stdio or run_http at start-up
StartInitGraph == MainBegin([IdleCall EXCEPT !.op = "init_graph", !.pc = "init"])

\* explore_concept(concept, limit); its first query() calls init_graph(),
\* unless terms[0] has raised before it
StartExplore(concept, limit) ==
  MainBegin([IdleCall EXCEPT !.op = "explore_concept", !.concept = concept,
                             !.limit = limit,
                             !.pc = IF ExploreRaises(concept) THEN "run" ELSE "init"])

\* search_by_label(search_term, limit); query() calls init_graph(), unless
\* terms[0] has raised before it
StartSearchByLabel(search_term, limit) ==
  MainBegin([IdleCall EXCEPT !.op = "search_by_label", !.search_term = search_term,
                             !.limit = limit,
                             !.pc = IF SearchRaises(search_term) THEN "run" ELSE "init"])

\* init_graph lines 19-26 and 30: g is returned if it is set; else
\* g = Graph() is assigned before anything is loaded
M_InitGraph ==
  /\ ~halted /\ mc.pc = "init"
  /\ IF main_g.set
     THEN mc' = [mc EXCEPT !.pc = "run"] /\ UNCHANGED main_g
     ELSE /\ main_g' = MainGraph(BlankGraph)
          /\ mc' = [mc EXCEPT !.pc = IF main_store.state # "absent" THEN "parse"
                                     ELSE "setup"]
  /\ UNCHANGED <<loadvars, upstream, halted, hist, main_store, main_dir>>

\* init_graph line 28: g.parse(STORE_PATH)
M_Parse ==
  /\ ~halted /\ mc.pc = "parse"
  /\ IF main_store.state = "corrupt"
     THEN mc' = [mc EXCEPT !.pc = "done", !.resp = Raised("BadSyntax")]
          /\ UNCHANGED main_g
     ELSE /\ main_g' = MainGraph(main_store.gv)
          /\ mc' = [mc EXCEPT !.pc = "run"]
  /\ UNCHANGED <<loadvars, upstream, halted, hist, main_store, main_dir>>

\* needs_update() (lines 437-459): the commit of the clone is the graph it
\* holds, the remote commit the graph upstream has
needs_update(store, dir, up) ==
  IF store.state = "absent" THEN TRUE
  ELSE IF up = "unreachable" THEN FALSE
  ELSE IF dir = NoDir THEN FALSE
  ELSE up # dir

\* download_fibo(force) (lines 461-491); recent: should_check_updates() is
\* false, the last check is less than a day old.  The result, the clone
\* that is there afterwards, and what the call met and did
download_fibo(force, recent, store, dir, up) ==
  LET met == [cache |-> store.state # "absent", repo |-> dir # NoDir,
             clone |-> "none"]
  IN
  IF \/ ~force /\ recent /\ dir # NoDir
     \/ ~force /\ ~needs_update(store, dir, up) /\ dir # NoDir
  THEN [ok |-> TRUE, dir |-> dir, dl |-> met]
  ELSE IF up = "unreachable"
  THEN [ok |-> FALSE, dir |-> NoDir, dl |-> [met EXCEPT !.clone = "failed"]]
  ELSE [ok |-> TRUE, dir |-> up, dl |-> [met EXCEPT !.clone = "done"]]

\* load_fibo() (lines 493-525): with no file to load it fails; else the
\* files are serialized to the cache file and the clone is removed
load_fibo(store, dir) ==
  IF dir = NoDir THEN [ok |-> FALSE, store |-> store, dir |-> dir]
  ELSE [ok |-> TRUE, store |-> Stored(GraphOf(dir)), dir |-> NoDir]

\* init_graph lines 31-41 with no cache file: download_fibo() keeps a clone
\* it checked recently or clones anew, load_fibo() serializes the files to
\* the cache file and removes the clone, and the cache file is parsed into g;
\* a failed clone ends the process
M_Setup ==
  /\ ~halted /\ mc.pc = "setup"
  /\ \E recent \in BOOLEAN :
       LET d == download_fibo(FALSE, recent, main_store, main_dir, upstream)
           l == load_fibo(main_store, d.dir)
       IN IF ~d.ok \/ ~l.ok
          THEN /\ mc' = [mc EXCEPT !.pc = "done", !.dl = d.dl,
                                   !.resp = Raised("SystemExit")]
               /\ halted' = TRUE
               /\ main_dir' = d.dir
               /\ UNCHANGED <<main_g, main_store>>
          ELSE /\ main_store' = l.store
               /\ main_dir' = l.dir
               /\ main_g' = MainGraph(l.store.gv)
               /\ mc' = [mc EXCEPT !.pc = "run", !.dl = d.dl]
               /\ UNCHANGED halted
  /\ UNCHANGED <<loadvars, upstream, hist>>

\* python main.py --setup [--force-update]: setup(force), run by a process
\* that has loaded no graph
StartSetup(force) ==
  /\ ~main_g.set
  /\ MainBegin([IdleCall EXCEPT !.op = "setup", !.force = force, !.pc = "download"])

\* setup lines 530-531: download_fibo(force=force), or sys.exit(1)
M_Download ==
  /\ ~halted /\ mc.pc = "download"
  /\ \E recent \in BOOLEAN :
       LET d == download_fibo(mc.force, recent, main_store, main_dir, upstream) IN
       /\ main_dir' = d.dir
       /\ mc' = IF d.ok THEN [mc EXCEPT !.pc = "load", !.dl = d.dl]
                ELSE [mc EXCEPT !.pc = "done", !.dl = d.dl,
                                !.resp = Raised("SystemExit")]
       /\ halted' = ~d.ok
  /\ UNCHANGED <<loadvars, upstream, hist, main_g, main_store>>

\* setup lines 533-536: load_fibo(), or sys.exit(1)
M_Load ==
  LET l == load_fibo(main_store, main_dir) IN
  /\ ~halted /\ mc.pc = "load"
  /\ main_store' = l.store
  /\ main_dir' = l.dir
  /\ mc' = IF l.ok THEN [mc EXCEPT !.pc = "done", !.resp = Value(l.store.gv)]
           ELSE [mc EXCEPT !.pc = "done", !.resp = Raised("SystemExit")]
  /\ halted' = ~l.ok
  /\ UNCHANGED <<loadvars, upstream, hist, main_g>>

\* the server process ends and another starts: g is None again, the files
\* stay
M_Restart ==
  /\ ~halted /\ mc.pc = "idle" /\ main_g.set
  /\ main_g' = NoMainGraph
  /\ UNCHANGED <<loadvars, upstream, halted, hist, main_store, main_dir, mc>>

\* the call runs on g: init_graph returns it, search_by_label and
\* explore_concept answer
M_Run ==
  /\ ~halted /\ mc.pc = "run"
  /\ mc' = [mc EXCEPT !.pc = "done", !.resp =
       IF mc.op = "init_graph" THEN Value(main_g.gv)
       ELSE IF mc.op = "search_by_label"
       THEN IF SearchRaises(mc.search_term) THEN Raised("IndexError")
            ELSE Payload(search_by_label(Triples(main_g.gv), mc.search_term, mc.limit))
       ELSE IF ExploreRaises(mc.concept) THEN Raised("IndexError")
       ELSE Payload(explore_concept(Triples(main_g.gv), mc.concept, mc.limit))]
  /\ UNCHANGED <<loadvars, upstream, halted, hist, main_g, main_store, main_dir>>

M_Return ==
  /\ ~halted /\ mc.pc = "done"
  /\ mc' = IdleCall
  /\ UNCHANGED <<loadvars, upstream, halted, hist, main_g, main_store, main_dir>>

NextMain ==
  \/ StartInitGraph
  \/ \E c \in Concepts, l \in Limits : StartExplore(c, l)
  \/ \E st \in SearchTerms, l \in Limits \cup {SearchDefaultLimit} :
       StartSearchByLabel(st, l)
  \/ M_InitGraph
  \/ M_Parse
  \/ M_Setup
  \/ \E f \in BOOLEAN : StartSetup(f)
  \/ M_Download
  \/ M_Load
  \/ M_Restart
  \/ M_Run
  \/ M_Return

SpecMain == InitMain /\ [][NextMain]_vars

(***************************************************************************)
(* Properties                                                              *)
(***************************************************************************)

Tools == {"sparql", "search", "describe", "restrictions"}

Done(t) == th[t].pc = "done"

\* thread t's sparql call evaluated its query (the try block was entered)
Evaluated(t) == Done(t) /\ th[t].op = "sparql" /\ th[t].intry

\* the response of thread t carries a list made by fuzzy_search
HasList(t) ==
  /\ Done(t)
  /\ \/ th[t].op = "fuzzy_search" /\ th[t].resp.kind = "value"
     \/ th[t].op = "search" /\ th[t].resp.kind = "payload"
     \/ /\ th[t].op = "sparql" /\ th[t].resp.kind = "payload"
        /\ "suggestions" \in DOMAIN th[t].resp.body

\* that list
Found(t) ==
  CASE th[t].op = "fuzzy_search" -> th[t].resp.v
    [] th[t].op = "search" -> th[t].resp.body.results
    [] OTHER -> th[t].resp.body.suggestions

\* the unrounded scores of the index the call used, by index position
ScoresOf(t) == get_scores(th[t].bm, Lower(th[t].term))

\* what fuzzy_search reports of index position i
Item(t, i) ==
  LET d == lists[th[t].docs][i] IN
  [uri |-> _compact_uri(d.uri), label |-> d.label, score |-> Round2(ScoresOf(t)[i])]

\* the ways to read the list as distinct index positions
Picks(t) ==
  {idx \in [1..Len(Found(t)) -> 1..Len(ScoresOf(t))] :
     /\ \A p \in DOMAIN idx : Found(t)[p] = Item(t, idx[p])
     /\ \A p, q \in DOMAIN idx : p # q => idx[p] # idx[q]}

\* position i ranks ahead of position j: a greater score, or the same score
\* and an earlier position
Ahead(sc, i, j) == sc[i] > sc[j] \/ (sc[i] = sc[j] /\ i < j)
Rank(sc, i) == Cardinality({j \in DOMAIN sc : Ahead(sc, j, i)})

\* the length of s[:k] for a sequence of n elements
WindowLen(k, n) == IF k >= 0 THEN k ELSE IF n + k > 0 THEN n + k ELSE 0

\* C1: when the evaluation of the query raises, sparql returns a payload
\* whose only key is error, with a non-empty message; nothing is raised to
\* the caller and the payload has no results, count or suggestions key.
C1_FailureBecomesErrorPayload ==
  \A t \in Threads :
    Evaluated(t) /\ QueryRaises(th[t].query) =>
      /\ th[t].resp.kind = "payload"
      /\ DOMAIN th[t].resp.body = {"error"}
      /\ th[t].resp.body.error # <<>>

C1_Witness ==
  \E t \in Threads :
    Evaluated(t) /\ QueryRaises(th[t].query) /\ th[t].resp.kind = "payload"

\* C2: every call of sparql, search, describe and restrictions ends with a
\* payload, never with an exception raised to the caller.
C2_NoUnhandledFault ==
  \A t \in Threads :
    Done(t) /\ th[t].op \in Tools => th[t].resp.kind = "payload"

\* C3: a sparql call whose query evaluates successfully returns a payload
\* that has the suggestions key exactly when the term extractor finds a term.
C3_SuggestionsIffTerm ==
  \A t \in Threads :
    Evaluated(t) /\ ~QueryRaises(th[t].query) =>
      /\ th[t].resp.kind = "payload"
      /\ ("suggestions" \in DOMAIN th[t].resp.body)
           <=> (_extract_search_term(th[t].query) # NoTerm)

\* C4: the suggestions sparql attaches are the list fuzzy_search gives for
\* the extracted term with top_k = 10 on the index and documents the module
\* holds: the same documents, order and scores.
C4_SuggestionsAreFuzzySearch ==
  \A t \in Threads :
    HasList(t) /\ th[t].op = "sparql" =>
      /\ _bm25_index.some
      /\ _extract_search_term(th[t].query) # NoTerm
      /\ Found(t) = FuzzyResult(_bm25_index.bm, lists[_docs_data],
                                _extract_search_term(th[t].query), 10)

C4_Witness ==
  \E t \in Threads :
    /\ HasList(t) /\ th[t].op = "sparql"
    /\ Len(Found(t)) >= 2
    /\ th[t].resp.body.count >= 1

\* C5 as amended: for top_k >= 0 fuzzy_search returns at most top_k
\* documents; every returned document sits at an index position whose
\* unrounded score is > 0, and its reported score, rounded to two decimals,
\* is >= 0; no position with score <= 0 is returned, so the list is no
\* longer than the number of positions with a positive score.
C5_PositiveUnroundedScores ==
  \A t \in Threads :
    HasList(t) =>
      /\ th[t].top_k >= 0 => Len(Found(t)) <= th[t].top_k
      /\ \A p \in DOMAIN Found(t) : Found(t)[p].score >= 0
      /\ \E idx \in Picks(t) : \A p \in DOMAIN idx : ScoresOf(t)[idx[p]] > 0

\* a position with score <= 0 lies inside the top_k window and the list is
\* shorter than top_k and than the index
C5_Witness ==
  \E t \in Threads :
    /\ HasList(t) /\ th[t].op = "fuzzy_search"
    /\ \E i \in DOMAIN ScoresOf(t) :
         ScoresOf(t)[i] <= 0 /\ Rank(ScoresOf(t), i) < th[t].top_k
    /\ Len(Found(t)) >= 1
    /\ Len(Found(t)) < th[t].top_k
    /\ Len(Found(t)) < Len(ScoresOf(t))

\* C5 as stated: for every top_k at most top_k documents are returned, and
\* every returned document has score > 0.
C5_EveryReturnedScorePositive ==
  \A t \in Threads :
    HasList(t) =>
      /\ Len(Found(t)) <= th[t].top_k
      /\ \A p \in DOMAIN Found(t) : Found(t)[p].score > 0

\* C6: the list of fuzzy_search is in non-increasing score order, documents
\* of equal score in index order, and it is the part with a positive score of
\* the first top_k positions of that order.
C6_StableDescendingOrder ==
  \A t \in Threads :
    HasList(t) =>
      /\ \A p, q \in DOMAIN Found(t) : p < q => Found(t)[p].score >= Found(t)[q].score
      /\ \E idx \in Picks(t) :
           LET sc == ScoresOf(t)
               w == WindowLen(th[t].top_k, Len(sc))
               chosen == {idx[p] : p \in DOMAIN idx}
           IN /\ \A p, q \in DOMAIN idx : p < q => Ahead(sc, idx[p], idx[q])
              /\ \A i \in DOMAIN sc : i \in chosen <=> (sc[i] > 0 /\ Rank(sc, i) < w)

\* two documents of equal positive score are both returned
C6_Witness ==
  \E t \in Threads :
    /\ HasList(t)
    /\ \E idx \in Picks(t) : \E p, q \in DOMAIN idx :
         p < q /\ ScoresOf(t)[idx[p]] = ScoresOf(t)[idx[q]]

\* thread t is between the test _bm25_index is None and the assignment of
\* the index
InIndexBuild(t) ==
  \/ th[t].pc \in {"bm_query", "bm_loop"}
  \/ th[t].ret = "bm_query" /\ th[t].pc \in {"gg_enter", "gg_load", "gg_parse_mat",
                                             "gg_parse_store", "gg_download"}

\* thread t is between the test _graph is not None and the return of the
\* loaded graph
InGraphLoad(t) ==
  th[t].pc \in {"gg_load", "gg_parse_mat", "gg_parse_store", "gg_download"}

\* thread t holds the graph get_graph returned to it
HoldsGraph(t) ==
  /\ th[t].graph # 0
  /\ th[t].pc \in {"sq_query", "ds_query", "rs_query", "bm_query", "done"}

\* C7: with first requests overlapping and no forced reload, at most one
\* thread builds the index, at most one loads the graph, and no caller is
\* handed a graph that is still empty while the cache file is sound.
C7_SingleFlight ==
  (\A t \in Threads : ~th[t].force) =>
    /\ Cardinality({t \in Threads : InIndexBuild(t)}) <= 1
    /\ Cardinality({t \in Threads : InGraphLoad(t)}) <= 1
    /\ \A t \in Threads :
         HoldsGraph(t) /\ file_store.state = "ok" => graphs[th[t].graph] # BlankGraph

\* C8: the pair _get_bm25 returns is aligned: as many documents as index
\* positions, and position i of the index made of document i.
C8_IndexAlignedWithDocuments ==
  \A t \in Threads :
    th[t].pc = "fz_score" =>
      /\ Len(lists[th[t].docs]) = Len(th[t].bm.docs)
      /\ \A i \in DOMAIN th[t].bm.docs :
           th[t].bm.docs[i] = CorpusEntry(lists[th[t].docs][i])

\* the corpus of the graph the module holds now
CurrentCorpus ==
  LET rows == ClassQuery(Triples(graphs[_graph]))
  IN [i \in 1..Len(rows) |-> CorpusEntry(DocOf(rows[i]))]

\* C9: a search or suggestion request is answered from an index built from
\* the graph the loader holds, also after a forced reload.
C9_IndexOfCurrentGraph ==
  \A t \in Threads :
    HasList(t) /\ _graph # 0 => th[t].bm.docs = CurrentCorpus

\* C10: no class URI occurs at two positions of the index, and fuzzy_search
\* never returns the same URI twice.
C10_OneDocumentPerClass ==
  /\ _bm25_index.some =>
       \A i, j \in DOMAIN lists[_docs_data] :
         i # j => lists[_docs_data][i].uri # lists[_docs_data][j].uri
  /\ \A t \in Threads :
       HasList(t) =>
         \A p, q \in DOMAIN Found(t) : p # q => Found(t)[p].uri # Found(t)[q].uri

\* the graph thread t obtained holds no class with a label
EmptyCorpus(t) ==
  th[t].graph # 0 /\ ClassQuery(Triples(graphs[th[t].graph])) = <<>>

\* C11: on a graph with no labelled class, fuzzy_search and search return an
\* empty list, and sparql with an extractable term returns its results with
\* empty suggestions; none raises or returns an error payload.
C11_EmptyCorpusGivesNoResults ==
  \A t \in Threads :
    /\ Done(t) /\ EmptyCorpus(t)
    /\ \/ th[t].op \in {"search", "fuzzy_search"}
       \/ /\ Evaluated(t) /\ ~QueryRaises(th[t].query)
          /\ _extract_search_term(th[t].query) # NoTerm
    => HasList(t) /\ Found(t) = <<>>

\* C12: a call get_graph(force_download=False, materialize=m) that comes
\* after a call with the same m returned, with no forced reload since,
\* returns the same graph object with the same triples.
C12_SameGraphOnLaterCalls ==
  \A t \in Threads :
    /\ Done(t) /\ th[t].op = "get_graph" /\ ~th[t].force
    /\ hist.gg[th[t].materialize].some
    => /\ th[t].resp.kind = "value"
       /\ th[t].resp.v = hist.gg[th[t].materialize].obj
       /\ graphs[th[t].resp.v] = hist.gg[th[t].materialize].gv

\* C13: the base cache file never holds inferred triples, the materialized
\* cache file always does, and get_graph(materialize=False) never returns a
\* graph with inferred triples.
C13_NeverConflated ==
  /\ file_store.state = "ok" => ~file_store.gv.inf
  /\ file_mat.state = "ok" => file_mat.gv.inf
  /\ \A t \in Threads :
       /\ Done(t) /\ th[t].op = "get_graph" /\ ~th[t].materialize
       /\ th[t].resp.kind = "value"
       => ~graphs[th[t].resp.v].inf

\* C14: no caller of get_graph is handed a graph into which no source was
\* loaded.
C14_NoEmptyGraphServed ==
  \A t \in Threads : HoldsGraph(t) => graphs[th[t].graph].base # {}

\* the sparql call before this one had the same query text and was answered
Repeated(t) ==
  /\ th[t].op = "sparql"
  /\ hist.prev.op = "sparql" /\ hist.prev.query = th[t].query
  /\ hist.prev.resp.kind = "payload"

\* C15: a query text that the call before answered with results is served
\* from the recent-query cache: sparql does not come to evaluate it on the
\* graph again.
C15_RepeatServedFromCache ==
  \A t \in Threads :
    th[t].pc = "sq_query" =>
      ~(Repeated(t) /\ "results" \in DOMAIN hist.prev.resp.body)

Registered(uri) == \E i \in DOMAIN PREFIXES : StartsWith(uri, PREFIXES[i].full)

\* full and short URIs of every namespace, and of one that is not in the table
SampleUris ==
  {ns \o <<name>> :
     ns \in {PREFIXES[i].full : i \in DOMAIN PREFIXES}
            \cup {PREFIXES[i].prefix : i \in DOMAIN PREFIXES}
            \cup {<<"http://example.org/">>, <<>>},
     name \in {"Thing", "label"}}

\* C17: _expand_uri(_compact_uri(u)) = u for a URI u that starts with a
\* namespace of PREFIXES, and _compact_uri(u) = u for any other; the uri that
\* describe and restrictions report expands to the full URI they were given.
C17_PrefixRoundTrip ==
  /\ \A u \in SampleUris :
       IF Registered(u) THEN _expand_uri(_compact_uri(u)) = u
       ELSE _compact_uri(u) = u
  /\ \A t \in Threads :
       /\ Done(t) /\ th[t].op \in {"describe", "restrictions"}
       /\ th[t].resp.kind = "payload" /\ "uri" \in DOMAIN th[t].resp.body
       /\ Registered(th[t].uri)
       => _expand_uri(th[t].resp.body.uri) = th[t].uri

\* a call given a full URI reports it in short form
C17_Witness ==
  \E t \in Threads :
    /\ Done(t) /\ th[t].op = "describe"
    /\ th[t].resp.kind = "payload" /\ "uri" \in DOMAIN th[t].resp.body
    /\ Registered(th[t].uri)
    /\ th[t].resp.body.uri # th[t].uri

\* sparql of thread t has extracted the term of its query, if it has one
Extracted(t) == th[t].op = "sparql" /\ th[t].intry /\ ~QueryRaises(th[t].query)

\* C18: the term is the lowercased literal of the first clause in the text
\* of the first pattern, in the order LCASE, STR, bare, equality, that has a
\* clause in the text, and it is not empty; with no such clause there is no
\* term and no suggestions.
C18_FirstPatternInOrderWins ==
  \A t \in Threads :
    Extracted(t) =>
      LET fs == th[t].query.filters
          order == <<"lcase", "str", "bare", "eq">>
          present == {p \in 1..4 : \E i \in DOMAIN fs : fs[i].form = order[p]}
      IN IF present = {}
         THEN /\ th[t].term = <<>>
              /\ Done(t) => "suggestions" \notin DOMAIN th[t].resp.body
         ELSE LET p == CHOOSE x \in present : \A y \in present : x <= y
                  clauses == {i \in DOMAIN fs : fs[i].form = order[p]}
                  i == CHOOSE x \in clauses : \A y \in clauses : x <= y
              IN th[t].term = Lower(fs[i].lit) /\ th[t].term # <<>>

\* the clause of a later pattern comes first in the text and does not win
C18_Witness ==
  \E t \in Threads :
    /\ Extracted(t) /\ Len(th[t].query.filters) >= 2
    /\ th[t].term # <<>>
    /\ th[t].term # Lower(th[t].query.filters[1].lit)

\* C19: every entity the label search returns for a key of the synonym table
\* is among the entities explore_concept returns for it with the same limit.
C19_WideningKeepsMatches ==
  /\ mc.pc = "done" /\ mc.op = "explore_concept" /\ IsSynonymKey(mc.concept)
  /\ mc.resp.kind = "payload"
  => LET narrow == LabelSearch(Triples(main_g.gv), TermsOf(mc.concept), Clamp(mc.limit))
         wide == IF "search" \in DOMAIN mc.resp.body THEN mc.resp.body.search
                 ELSE mc.resp.body.all_search_results
     IN \A i \in DOMAIN narrow : \E j \in DOMAIN wide : wide[j].entity = narrow[i].entity

\* sparql of thread t returned the rows of its query
Answered(t) ==
  /\ Done(t) /\ th[t].op = "sparql" /\ th[t].resp.kind = "payload"
  /\ "results" \in DOMAIN th[t].resp.body

\* the rows the engine gives for the query of thread t
EngineRows(t) == EvalSelect(Triples(graphs[th[t].graph]), th[t].query)

\* C20: the rows of a successful sparql are the engine's rows in their order;
\* a row has a key for a variable exactly if the engine row binds it, and the
\* value is the compacted string of the bound value.
C20_RowsKeepBoundVariables ==
  \A t \in Threads :
    Answered(t) =>
      LET rows == EngineRows(t)
          out == th[t].resp.body.results
      IN /\ Len(out) = Len(rows)
         /\ \A i \in DOMAIN rows :
              /\ DOMAIN out[i] = {v \in Range(SelectVars) : rows[i][v] # Unbound}
              /\ \A v \in DOMAIN out[i] : out[i][v] = _compact_uri(Str(rows[i][v]))

\* a row with an unbound variable, a row with a variable bound to the empty
\* string, and a value that compaction shortened
C20_Witness ==
  \E t \in Threads :
    /\ Answered(t)
    /\ \E i \in DOMAIN EngineRows(t) :
         /\ \E v \in Range(SelectVars) : EngineRows(t)[i][v] = Unbound
         /\ \E v \in DOMAIN th[t].resp.body.results[i] :
              th[t].resp.body.results[i][v] # Str(EngineRows(t)[i][v])
    /\ \E i \in DOMAIN EngineRows(t) : \E v \in Range(SelectVars) :
         /\ EngineRows(t)[i][v] # Unbound /\ Str(EngineRows(t)[i][v]) = <<>>
         /\ v \in DOMAIN th[t].resp.body.results[i]

\* search_by_label has returned a payload
Searched ==
  mc.pc = "done" /\ mc.op = "search_by_label" /\ mc.resp.kind = "payload"

\* C21: the payload of search_by_label carries _suggestion when the label
\* query gave no binding and _next_steps when it gave one, never both and
\* never neither; the related classes of a _suggestion are 1 to 5.
C21_OneGuidanceField ==
  Searched =>
    LET body == mc.resp.body
        zero == Len(body.results.bindings) = 0
    IN /\ ("_suggestion" \in DOMAIN body) <=> zero
       /\ ("_next_steps" \in DOMAIN body) <=> ~zero
       /\ ("_suggestion" \in DOMAIN body
             /\ "related_classes" \in DOMAIN body._suggestion)
          => Len(body._suggestion.related_classes) \in 1..RelatedCap

\* more classes match than are listed: the loops ended at the fifth
C21_Witness ==
  /\ Searched
  /\ "_suggestion" \in DOMAIN mc.resp.body
  /\ "related_classes" \in DOMAIN mc.resp.body._suggestion
  /\ Len(mc.resp.body._suggestion.related_classes) = RelatedCap
  /\ Len(RelatedUncut(Triples(main_g.gv), mc.search_term)) > RelatedCap

\* download_fibo(force=False) of setup has returned true, and it was called
\* with a cache file that load_fibo wrote and no clone
KeptCache ==
  /\ mc.op = "setup" /\ mc.pc = "load" /\ ~mc.force
  /\ mc.dl.cache /\ ~mc.dl.repo /\ main_store.state = "ok"

\* C22: download_fibo(force=False), called with the cache file there and no
\* clone, does not run git clone.
C22_NoCloneWhenCacheWithoutRepository ==
  KeptCache => mc.dl.clone = "none"

\* a tool call of thread t has returned a payload
Replied(t) == Done(t) /\ th[t].op \in Tools /\ th[t].resp.kind = "payload"

\* C23: a payload of sparql, search, describe or restrictions has an error
\* key and none of results, restrictions, count and suggestions, or it has no
\* error key and its count is the length of its results (of its restrictions,
\* for restrictions); so a failure of the suggestions after the query
\* succeeded gives the error payload alone.
C23_ErrorOrCountedResults ==
  \A t \in Threads :
    Replied(t) =>
      LET body == th[t].resp.body
          rows == IF th[t].op = "restrictions" THEN "restrictions" ELSE "results"
      IN IF "error" \in DOMAIN body
         THEN DOMAIN body \cap {"results", "restrictions", "count", "suggestions"} = {}
         ELSE /\ {rows, "count"} \subseteq DOMAIN body
              /\ body.count = Len(body[rows])

\* the query of a sparql call succeeded and the suggestions failed
C23_Witness ==
  \E t \in Threads :
    /\ Replied(t) /\ th[t].op = "sparql" /\ ~QueryRaises(th[t].query)
    /\ "error" \in DOMAIN th[t].resp.body

=========================================================================
